---- MODULE Spec2Model ----
(***************************************************************************)
(* Model of tools/git_autocommit.py: the configuration loader, the command *)
(* runner, the change detector and the polling loop of main().             *)
(*                                                                         *)
(* Python values are records [t, n, s]: t is the Python type, n the number *)
(* (or 0/1 of a bool), s the characters of a string.  A string is a        *)
(* sequence of one-character strings, so that strip(), float() and the     *)
(* f-string formatting are computed and not assumed.  A dict is a function *)
(* from key names to values.                                               *)
(***************************************************************************)
EXTENDS Integers, Sequences, FiniteSets, TLC

VARIABLES
    file,              \* what is at CONFIG_PATH when load_config() opens it
    DEFAULT_CONFIG,    \* the module-level dict of line 22
    cfg,               \* main(): the dict load_config() returned
    pc,                \* main(): the statement control is at
    exit_status,       \* the process's exit status, Running while it runs
    delay,             \* main(): float(cfg.get('delay_seconds', 2))
    debounce,          \* main(): float(cfg.get('debounce_seconds', 5))
    branch,            \* main(): cfg.get('branch', 'main')
    push,              \* main(): bool(cfg.get('push', True))
    include_untracked, \* main(): bool(cfg.get('include_untracked', True))
    last_commit_time,  \* main(): the loop's only mutable state
    now,               \* main(): the time.time() reading of line 83
    code,              \* the status of the last run() result
    out,               \* the output text of the last run() result
    clock,             \* the wall clock time.time() reads
    cmds,              \* the run() calls of the current iteration: [cmd, code]
    lct_at_poll,       \* history: last_commit_time when the current iteration began
    sleeps,            \* history: the time.sleep() calls returned since the last status query
    prev_iter,         \* history: how the last completed iteration ended ("none" before)
    detected_before,   \* history: a completed iteration has detected changes
    proc,              \* what subprocess.run meets in the call of run() taken alone
    log                \* the last message print() wrote ("" before the first)

vars == <<file, DEFAULT_CONFIG, cfg, pc, exit_status, delay, debounce, branch,
          push, include_untracked, last_commit_time, now, code, out, clock,
          cmds, lct_at_poll, sleeps, prev_iter, detected_before, proc, log>>

\* The history kept only by the specifications that observe whole iterations
history == <<sleeps, prev_iter, detected_before>>

\* ------------------------------------------------------------ bounds

\* The clock readings the model explores: 0..MaxClock.
MaxClock == 7
\* The most wall-clock time one command, or the overshoot of one sleep, takes.
MaxStep == 1
\* The longest raw output text of a command.
MaxOut == 1
\* The most keys a config file of the loop's specification holds.
MaxFileKeys == 2

\* ------------------------------------------------------------ Python values

Val(t, n, s) == [t |-> t, n |-> n, s |-> s]
Null == Val("null", 0, <<>>)
Bool(b) == Val("bool", IF b THEN 1 ELSE 0, <<>>)
Num(n) == Val("num", n, <<>>)
Str(s) == Val("str", 0, s)

\* str.strip()'s whitespace
Whitespace == {" ", "\n", "\t"}

RECURSIVE LStrip(_)
LStrip(s) ==
    IF s # <<>> /\ Head(s) \in Whitespace THEN LStrip(Tail(s)) ELSE s

RECURSIVE RStrip(_)
RStrip(s) ==
    IF s # <<>> /\ s[Len(s)] \in Whitespace
    THEN RStrip(SubSeq(s, 1, Len(s) - 1))
    ELSE s

\* str.strip()
Strip(s) == RStrip(LStrip(s))

\* bool(v)
PyBool(v) ==
    CASE v.t = "null" -> FALSE
      [] v.t = "bool" -> v.n = 1
      [] v.t = "num" -> v.n # 0
      [] OTHER -> v.s # <<>>

Digits == <<"0", "1", "2", "3", "4", "5", "6", "7", "8", "9">>
DigitChars == {Digits[i] : i \in 1..10}
DigitVal(c) == (CHOOSE i \in 1..10 : Digits[i] = c) - 1

RECURSIVE ParseDigits(_, _)
ParseDigits(s, acc) ==
    IF s = <<>> THEN acc ELSE ParseDigits(Tail(s), 10 * acc + DigitVal(Head(s)))

\* float(v): [ok, n]; ok = FALSE is the ValueError / TypeError float() raises.
PyFloat(v) ==
    CASE v.t = "null" -> [ok |-> FALSE, n |-> 0]
      [] v.t \in {"bool", "num"} -> [ok |-> TRUE, n |-> v.n]
      [] OTHER ->
            LET b == Strip(v.s)
                neg == b # <<>> /\ Head(b) = "-"
                signed == b # <<>> /\ Head(b) \in {"-", "+"}
                d == IF signed THEN Tail(b) ELSE b
            IN  IF d # <<>> /\ \A i \in 1..Len(d) : d[i] \in DigitChars
                THEN [ok |-> TRUE,
                      n |-> IF neg THEN 0 - ParseDigits(d, 0) ELSE ParseDigits(d, 0)]
                ELSE [ok |-> FALSE, n |-> 0]

RECURSIVE NatStr(_)
NatStr(n) ==
    IF n < 10 THEN <<Digits[n + 1]>> ELSE NatStr(n \div 10) \o <<Digits[(n % 10) + 1]>>

\* The text an f-string puts for {v}
PyStr(v) ==
    CASE v.t = "null" -> <<"N", "o", "n", "e">>
      [] v.t = "bool" ->
            IF v.n = 1 THEN <<"T", "r", "u", "e">> ELSE <<"F", "a", "l", "s", "e">>
      [] v.t = "num" -> IF v.n < 0 THEN <<"-">> \o NatStr(0 - v.n) ELSE NatStr(v.n)
      [] OTHER -> v.s

\* ------------------------------------------------------------ dicts

EmptyDict == [k \in {} |-> Null]

\* d.get(k, default)
Get(d, k, default) == IF k \in DOMAIN d THEN d[k] ELSE default

\* A faulty variant of DictUpdate: the defaults win over the file's keys.
DictUpdateDefaultsWin(d, c) ==
    [k \in DOMAIN d \cup DOMAIN c |-> IF k \in DOMAIN d THEN d[k] ELSE c[k]]

\* d.update(c) for a dict c: the dict d becomes
DictUpdate(d, c) ==
    [k \in DOMAIN d \cup DOMAIN c |-> IF k \in DOMAIN c THEN c[k] ELSE d[k]]

\* The literal of lines 22-30
DefaultRecord ==
    [k \in {"enabled", "delay_seconds", "debounce_seconds", "commit_message",
            "branch", "push", "include_untracked"} |->
        CASE k = "enabled" -> Bool(TRUE)
          [] k = "delay_seconds" -> Num(2)
          [] k = "debounce_seconds" -> Num(5)
          [] k = "commit_message" ->
                Str(<<"a", "u", "t", "o", "s", "a", "v", "e", ":", " ",
                      "u", "p", "d", "a", "t", "e">>)
          [] k = "branch" -> Str(<<"m", "a", "i", "n">>)
          [] k = "push" -> Bool(TRUE)
          [] OTHER -> Bool(TRUE)]

\* ------------------------------------------------------------ the config file

\* What open() and json.load() meet at CONFIG_PATH.  kind: "absent" (open raises
\* FileNotFoundError), "unreadable" (open raises another OSError), "invalid"
\* (json.load raises), or the JSON value's type: "object" (obj), "array" (arr)
\* or "scalar" (sc).
File(kind, obj, arr, sc) == [kind |-> kind, obj |-> obj, arr |-> arr, sc |-> sc]

\* An element of a JSON array: a list of len items whose first item is the
\* string key (hashable) or a list (not hashable) and whose second is val, or
\* the scalar sc.
ListElem(len, hashable, key, val) ==
    [list |-> TRUE, len |-> len, hashable |-> hashable, key |-> key, val |-> val,
     sc |-> Null]
ScalarElem(sc) ==
    [list |-> FALSE, len |-> 0, hashable |-> TRUE, key |-> "", val |-> Null, sc |-> sc]

\* dict.update's reading of one element of an iterable as a (key, value) pair:
\* a 2-item list with a hashable first item, or a 2-character string.
PairOf(e) ==
    IF e.list
    THEN [ok |-> e.len = 2 /\ e.hashable, key |-> e.key, val |-> e.val]
    ELSE IF e.sc.t = "str" /\ Len(e.sc.s) = 2
         THEN [ok |-> TRUE, key |-> e.sc.s[1], val |-> Str(<<e.sc.s[2]>>)]
         ELSE [ok |-> FALSE, key |-> "", val |-> Null]

\* d.update(arr) for a list arr: [ok, d]; ok = FALSE is the exception raised
RECURSIVE UpdateFromPairs(_, _)
UpdateFromPairs(d, arr) ==
    IF arr = <<>> THEN [ok |-> TRUE, d |-> d]
    ELSE LET p == PairOf(Head(arr))
         IN  IF ~p.ok THEN [ok |-> FALSE, d |-> d]
             ELSE UpdateFromPairs(
                    [k \in DOMAIN d \cup {p.key} |-> IF k = p.key THEN p.val ELSE d[k]],
                    Tail(arr))

\* d.update(cfg) of line 38 for whatever json.load returned: [ok, d]
Update(d, f) ==
    CASE f.kind = "object" -> [ok |-> TRUE, d |-> DictUpdate(d, f.obj)]
      [] f.kind = "array" -> UpdateFromPairs(d, f.arr)
      [] OTHER ->
            \* a scalar: only the empty string is an (empty) iterable of pairs
            [ok |-> f.sc.t = "str" /\ f.sc.s = <<>>, d |-> d]

\* A faulty variant of load_config: no .copy(), the update is applied to DEFAULT_CONFIG.
load_config_nocopy(f, defaults) ==
    IF f.kind \in {"absent", "unreadable", "invalid"}
    THEN [ret |-> defaults, defaults |-> defaults, printed |-> f.kind # "absent"]
    ELSE LET u == Update(defaults, f)
         IN  IF u.ok THEN [ret |-> u.d, defaults |-> u.d, printed |-> FALSE]
             ELSE [ret |-> defaults, defaults |-> defaults, printed |-> TRUE]

\* load_config(): ret is the dict returned, defaults the module's DEFAULT_CONFIG
\* after the call, printed whether "Failed to read config" was printed.
load_config(f, defaults) ==
    IF f.kind = "absent"
    THEN [ret |-> defaults, defaults |-> defaults, printed |-> FALSE]
    ELSE IF f.kind \in {"unreadable", "invalid"}
    THEN [ret |-> defaults, defaults |-> defaults, printed |-> TRUE]
    ELSE LET u == Update(defaults, f)
         IN  IF u.ok THEN [ret |-> u.d, defaults |-> defaults, printed |-> FALSE]
             ELSE [ret |-> defaults, defaults |-> defaults, printed |-> TRUE]

\* ------------------------------------------------------------ the inputs

\* The values the model's config files give each key.
KeyVals ==
    [k \in {"enabled", "delay_seconds", "debounce_seconds", "commit_message",
            "branch", "push", "include_untracked", "extra"} |->
        CASE k = "enabled" -> {Bool(FALSE), Bool(TRUE)}
          [] k = "delay_seconds" -> {Num(1), Num(0 - 1), Str(<<"x">>)}
          [] k = "debounce_seconds" -> {Num(0), Num(3), Str(<<" ", "2">>)}
          [] k = "commit_message" -> {Str(<<"w", "i", "p">>)}
          [] k = "branch" -> {Str(<<"d", "e", "v">>)}
          [] k = "push" -> {Bool(FALSE), Str(<<"n", "o">>)}
          [] k = "include_untracked" -> {Bool(FALSE)}
          [] OTHER -> {Num(9)}]

\* Every JSON object over a set of keys
RECURSIVE ObjectsOver(_)
ObjectsOver(ks) ==
    IF ks = {} THEN {EmptyDict}
    ELSE LET k == CHOOSE x \in ks : TRUE
         IN  {[j \in DOMAIN o \cup {k} |-> IF j = k THEN v ELSE o[j]] :
                 o \in ObjectsOver(ks \ {k}), v \in KeyVals[k]}

Objects(maxKeys) ==
    UNION {ObjectsOver(ks) : ks \in {x \in SUBSET DOMAIN KeyVals : Cardinality(x) <= maxKeys}}

ObjectFiles(maxKeys) == {File("object", o, <<>>, Null) : o \in Objects(maxKeys)}

\* JSON arrays: of pairs, of a 3-item list, of an unhashable key, of strings and
\* of a number
ArrayFiles ==
    {File("array", EmptyDict, a, Null) : a \in
        {<<>>,
         <<ListElem(2, TRUE, "enabled", Bool(FALSE))>>,
         <<ListElem(2, TRUE, "push", Bool(FALSE)), ListElem(2, TRUE, "extra", Num(9))>>,
         <<ListElem(2, TRUE, "push", Bool(FALSE)), ListElem(3, TRUE, "extra", Num(9))>>,
         <<ListElem(2, FALSE, "", Num(9))>>,
         <<ScalarElem(Str(<<"a", "b">>))>>,
         <<ScalarElem(Str(<<"a">>))>>,
         <<ScalarElem(Num(1))>>}}

ScalarFiles ==
    {File("scalar", EmptyDict, <<>>, v) : v \in
        {Null, Bool(TRUE), Num(5), Str(<<>>), Str(<<"a", "b">>)}}

FailedFiles == {File(k, EmptyDict, <<>>, Null) : k \in {"absent", "unreadable", "invalid"}}

\* The config files of the loader's specification: every subset of the keys
AllFiles == ObjectFiles(Cardinality(DOMAIN KeyVals)) \cup ArrayFiles \cup ScalarFiles
                \cup FailedFiles

\* The config files of the loop's specification
LoopFiles == ObjectFiles(MaxFileKeys) \cup ArrayFiles \cup ScalarFiles \cup FailedFiles

\* ------------------------------------------------------------ run()

\* What subprocess.run does with a command: the process ran (returncode, stdout)
\* or could not be launched (the exception's text).
OutChars == {" ", "M"}
RawTexts == UNION {[1..n -> OutChars] : n \in 0..MaxOut}
Outcomes ==
    {[launched |-> TRUE, returncode |-> c, stdout |-> t, text |-> <<>>] :
        c \in {0, 128}, t \in RawTexts}
    \cup {[launched |-> FALSE, returncode |-> 0, stdout |-> <<>>, text |-> <<"E">>]}

\* A faulty variant of run: the output is returned as it was captured.
run_unstripped(o) ==
    IF o.launched
    THEN [code |-> o.returncode, out |-> o.stdout]
    ELSE [code |-> 1, out |-> o.text]

\* run(cmd): the (status, output) pair returned for an outcome
run(o) ==
    IF o.launched
    THEN [code |-> o.returncode, out |-> Strip(o.stdout)]
    ELSE [code |-> 1, out |-> o.text]

\* A faulty variant of has_worktree_changes: the status code is not looked at.
has_worktree_changes_nocode(r) == Strip(r.out) # <<>>

\* has_worktree_changes() for the result r of run('git status --porcelain')
has_worktree_changes(r) ==
    IF r.code # 0 THEN FALSE ELSE Strip(r.out) # <<>>

\* ------------------------------------------------------------ the commands

StatusCmd == <<"git status --porcelain">>
AddCmd == <<"git add -A">>
DiffCmd == <<"git diff --cached --name-only">>

TwoDigits(n) == <<Digits[(n \div 10) + 1], Digits[(n % 10) + 1]>>

\* datetime.utcnow().replace(microsecond=0).isoformat() + 'Z' at clock reading t
\* (t below one hour after the epoch)
IsoZ(t) ==
    <<"1970-01-01T00:">> \o TwoDigits((t \div 60) % 60) \o <<":">>
        \o TwoDigits(t % 60) \o <<"Z">>

\* msg of line 111
CommitMsg(c, t) ==
    PyStr(Get(c, "commit_message", DefaultRecord["commit_message"])) \o <<" - ">> \o IsoZ(t)

\* commit_cmd of line 112
CommitCmd(c, t) == <<"git commit -m \"">> \o CommitMsg(c, t) \o <<"\"">>

\* A faulty variant of PushCmd: the configured branch is not used.
PushCmdMain(b) == <<"git push origin ">> \o PyStr(DefaultRecord["branch"])

\* push_cmd of line 121
PushCmd(b) == <<"git push origin ">> \o PyStr(b)

\* The record the history keeps of one run(cmd) call and the status in its result r
Entry(c, r) == [cmd |-> c, code |-> r.code]

IsCommit(e) == e.cmd[1] = "git commit -m \""
IsPush(e) == e.cmd[1] = "git push origin "

\* ------------------------------------------------------------ main()

Running == <<>>
Exited(n) == <<n>>

StartupPCs == {"start", "check_enabled", "parse"}
SleepPCs == {"sleep87", "sleep95", "sleep102", "sleep106", "sleep128"}
LoopPCs == {"poll", "debounce", "add", "diff", "commit", "push"} \cup SleepPCs

\* The clock moves on by dt while a call is in progress.
Tick(dt) == clock + dt <= MaxClock /\ clock' = clock + dt

\* No subprocess: the value of proc in the specifications that run main()
NoProc == [launched |-> FALSE, returncode |-> 0, stdout |-> <<>>, text |-> <<>>]

InitWith(files) ==
    /\ file \in files
    /\ DEFAULT_CONFIG = DefaultRecord
    /\ cfg = EmptyDict
    /\ pc = "start"
    /\ exit_status = Running
    /\ delay = 0
    /\ debounce = 0
    /\ branch = Null
    /\ push = FALSE
    /\ include_untracked = FALSE
    /\ last_commit_time = 0
    /\ now = 0
    /\ code = 0
    /\ out = <<>>
    /\ clock \in 0..MaxClock
    /\ cmds = <<>>
    /\ lct_at_poll = 0
    /\ sleeps = 0
    /\ prev_iter = "none"
    /\ detected_before = FALSE
    /\ proc = NoProc
    /\ log = ""

Init == InitWith(LoopFiles)

\* A faulty variant of InitialLastCommitTime: the start of the process counts
\* as a commit.
InitialLastCommitTimeNow(t) == t

\* The value line 68 gives last_commit_time, at clock reading t
InitialLastCommitTime(t) == 0

\* Lines 66-68: cfg = load_config(); print; last_commit_time = 0
LoadConfig ==
    /\ pc = "start"
    /\ LET r == load_config(file, DEFAULT_CONFIG)
       IN  /\ cfg' = r.ret
           /\ DEFAULT_CONFIG' = r.defaults
    /\ log' = "Auto-commit config:"
    /\ last_commit_time' = InitialLastCommitTime(clock)
    /\ pc' = "check_enabled"
    /\ UNCHANGED <<file, exit_status, delay, debounce, branch, push,
                   include_untracked, now, code, out, clock, cmds, lct_at_poll>>

\* A faulty variant of Disabled: the enabled key is not looked at.
DisabledNever(c) == FALSE

\* The test of line 70
Disabled(c) == ~PyBool(Get(c, "enabled", Bool(TRUE)))

\* Lines 70-72: the enabled check, once, before the loop
CheckEnabled ==
    /\ pc = "check_enabled"
    /\ IF Disabled(cfg)
       THEN /\ log' = "Autocommit is disabled in config. Exiting."
            /\ pc' = "exited"
            /\ exit_status' = Exited(0)
       ELSE /\ pc' = "parse"
            /\ UNCHANGED <<log, exit_status>>
    /\ UNCHANGED <<file, DEFAULT_CONFIG, cfg, delay, debounce, branch, push,
                   include_untracked, last_commit_time, now, code, out, clock, cmds, lct_at_poll>>

\* Lines 74-78: the conversions of the config values; float() raises outside
\* the try block, so the exception ends the process with a traceback.
ParseConfig ==
    /\ pc = "parse"
    /\ LET fd == PyFloat(Get(cfg, "delay_seconds", Num(2)))
           fb == PyFloat(Get(cfg, "debounce_seconds", Num(5)))
       IN  IF fd.ok /\ fb.ok
           THEN /\ delay' = fd.n
                /\ debounce' = fb.n
                /\ branch' = Get(cfg, "branch", Str(<<"m", "a", "i", "n">>))
                /\ push' = PyBool(Get(cfg, "push", Bool(TRUE)))
                /\ include_untracked' = PyBool(Get(cfg, "include_untracked", Bool(TRUE)))
                /\ pc' = "poll"
                /\ UNCHANGED <<log, exit_status>>
           ELSE /\ log' = "Traceback (most recent call last):"
                /\ pc' = "crashed"
                /\ exit_status' = Exited(1)
                /\ UNCHANGED <<delay, debounce, branch, push, include_untracked>>
    /\ UNCHANGED <<file, DEFAULT_CONFIG, cfg, last_commit_time, now, code, out,
                   clock, cmds, lct_at_poll>>

\* Line 82 (and 57-62): the change detector starts an iteration
Poll ==
    /\ pc = "poll"
    /\ \E o \in Outcomes, dt \in 0..MaxStep :
         LET r == run(o)
         IN  /\ Tick(dt)
             /\ code' = r.code
             /\ out' = r.out
             /\ cmds' = <<Entry(StatusCmd, r)>>
             /\ lct_at_poll' = last_commit_time
             /\ log' = IF r.code # 0 THEN "git status failed:"
                       ELSE "> git status --porcelain"
             /\ pc' = IF has_worktree_changes(r) THEN "debounce" ELSE "sleep128"
    /\ UNCHANGED <<file, DEFAULT_CONFIG, cfg, exit_status, delay, debounce, branch,
                   push, include_untracked, last_commit_time, now>>

\* A faulty variant of TooSoon: the comparison is taken the other way round.
TooSoonInverted(t, last, d) == t - last >= d

\* A faulty variant of TooSoon: the gate is always open.
TooSoonNever(t, last, d) == FALSE

\* A faulty variant of TooSoon: the gate is always closed.
TooSoonAlways(t, last, d) == TRUE

\* The test of line 84
TooSoon(t, last, d) == t - last < d

\* Lines 83-88: the debounce gate
Debounce ==
    /\ pc = "debounce"
    /\ now' = clock
    /\ IF TooSoon(clock, last_commit_time, debounce)
       THEN /\ log' = "Changes detected but debouncing..."
            /\ pc' = "sleep87"
       ELSE /\ pc' = "add"
            /\ UNCHANGED log
    /\ UNCHANGED <<file, DEFAULT_CONFIG, cfg, exit_status, delay, debounce, branch,
                   push, include_untracked, last_commit_time, code, out, clock, cmds, lct_at_poll>>

\* A faulty variant of AddFailed: the add's status is not looked at.
AddFailedNever(c) == FALSE

\* The test of line 93
AddFailed(c) == c # 0

\* Lines 91-96: stage everything
Add ==
    /\ pc = "add"
    /\ \E o \in Outcomes, dt \in 0..MaxStep :
         LET r == run(o)
         IN  /\ Tick(dt)
             /\ code' = r.code
             /\ out' = r.out
             /\ cmds' = Append(cmds, Entry(AddCmd, r))
             /\ IF AddFailed(r.code)
                THEN log' = "git add failed:" /\ pc' = "sleep95"
                ELSE log' = "> git add -A" /\ pc' = "diff"
    /\ UNCHANGED <<file, DEFAULT_CONFIG, cfg, exit_status, delay, debounce, branch,
                   push, include_untracked, last_commit_time, now, lct_at_poll>>

\* A faulty variant of NothingStaged: an empty staged diff is not looked for.
NothingStagedNever(text) == FALSE

\* The test of line 104
NothingStaged(text) == Strip(text) = <<>>

\* Lines 99-107: is anything staged
Diff ==
    /\ pc = "diff"
    /\ \E o \in Outcomes, dt \in 0..MaxStep :
         LET r == run(o)
         IN  /\ Tick(dt)
             /\ code' = r.code
             /\ out' = r.out
             /\ cmds' = Append(cmds, Entry(DiffCmd, r))
             /\ IF r.code # 0
                THEN log' = "git diff --cached failed:" /\ pc' = "sleep102"
                ELSE IF NothingStaged(r.out)
                THEN log' = "Nothing staged to commit (skipping)." /\ pc' = "sleep106"
                ELSE log' = "> git diff --cached --name-only" /\ pc' = "commit"
    /\ UNCHANGED <<file, DEFAULT_CONFIG, cfg, exit_status, delay, debounce, branch,
                   push, include_untracked, last_commit_time, now, lct_at_poll>>

\* A faulty variant of CommitSucceeded: the commit's status is not looked at.
CommitSucceededAlways(c) == TRUE

\* A faulty variant of CommitSucceeded: only a failure to launch counts.
CommitSucceededUnlessLaunch(c) == c # 1

\* The test of lines 114-116
CommitSucceeded(c) == ~(c # 0)

\* A faulty variant of CommitTime: the time is read before the commit is run.
CommitTimeBefore(before, after) == before

\* The time.time() of line 118, for the clock readings before the commit
\* command was run and after it returned
CommitTime(before, after) == after

\* Lines 110-120: commit; on success record the time and go on to the push
Commit ==
    /\ pc = "commit"
    /\ \E o \in Outcomes, dt \in 0..MaxStep :
         LET r == run(o)
         IN  /\ Tick(dt)
             /\ code' = r.code
             /\ out' = r.out
             /\ cmds' = Append(cmds, Entry(CommitCmd(cfg, clock), r))
             /\ IF CommitSucceeded(r.code)
                THEN /\ log' = "Committed:"
                     /\ last_commit_time' = CommitTime(clock, clock')
                     /\ pc' = IF push THEN "push" ELSE "sleep128"
                ELSE /\ log' = "git commit failed:"
                     /\ pc' = "sleep128"
                     /\ UNCHANGED last_commit_time
    /\ UNCHANGED <<file, DEFAULT_CONFIG, cfg, exit_status, delay, debounce, branch,
                   push, include_untracked, now, lct_at_poll>>

\* Lines 121-126: push to origin <branch>
Push ==
    /\ pc = "push"
    /\ \E o \in Outcomes, dt \in 0..MaxStep :
         LET r == run(o)
         IN  /\ Tick(dt)
             /\ code' = r.code
             /\ out' = r.out
             /\ cmds' = Append(cmds, Entry(PushCmd(branch), r))
             /\ log' = IF r.code # 0 THEN "git push failed:" ELSE "Pushed to origin"
             /\ pc' = "sleep128"
    /\ UNCHANGED <<file, DEFAULT_CONFIG, cfg, exit_status, delay, debounce, branch,
                   push, include_untracked, last_commit_time, now, lct_at_poll>>

\* A faulty variant of AfterSleep: the continue of line 96 is missing.
AfterSleepNoContinue(site) == IF site = "sleep95" THEN "diff" ELSE "poll"

\* Where control goes after the sleep at `site`: the continue of lines 88, 96,
\* 103 and 107, and the end of the loop body after line 128
AfterSleep(site) == "poll"

\* time.sleep(delay) of lines 87, 95, 102, 106 and 128, each followed by the
\* next iteration.  A negative delay makes time.sleep raise ValueError, which
\* the except clause of line 130 does not catch.
Sleep ==
    /\ pc \in SleepPCs
    /\ IF delay < 0
       THEN /\ log' = "Traceback (most recent call last):"
            /\ pc' = "crashed"
            /\ exit_status' = Exited(1)
            /\ UNCHANGED clock
       ELSE /\ \E dt \in 0..MaxStep : Tick(delay + dt)
            /\ pc' = AfterSleep(pc)
            /\ UNCHANGED <<log, exit_status>>
    /\ UNCHANGED <<file, DEFAULT_CONFIG, cfg, delay, debounce, branch, push,
                   include_untracked, last_commit_time, now, code, out, cmds, lct_at_poll>>

\* Lines 130-131: KeyboardInterrupt raised anywhere inside the try block
Interrupt ==
    /\ pc \in LoopPCs
    /\ log' = "Autocommit watcher stopped by user."
    /\ pc' = "stopped"
    /\ exit_status' = Exited(0)
    /\ UNCHANGED <<file, DEFAULT_CONFIG, cfg, delay, debounce, branch, push,
                   include_untracked, last_commit_time, now, code, out, clock, cmds, lct_at_poll>>

\* KeyboardInterrupt raised in lines 66-78, before the try block is entered:
\* nothing catches it and the interpreter ends the process by SIGINT.
StartupInterrupt ==
    /\ pc \in StartupPCs
    /\ log' = "KeyboardInterrupt"
    /\ pc' = "aborted"
    /\ exit_status' = Exited(130)
    /\ UNCHANGED <<file, DEFAULT_CONFIG, cfg, delay, debounce, branch, push,
                   include_untracked, last_commit_time, now, code, out, clock, cmds, lct_at_poll>>

\* main(), one statement at a time
Next ==
    \/ LoadConfig /\ UNCHANGED <<history, proc>>
    \/ CheckEnabled /\ UNCHANGED <<history, proc>>
    \/ ParseConfig /\ UNCHANGED <<history, proc>>
    \/ Poll /\ UNCHANGED <<history, proc>>
    \/ Debounce /\ UNCHANGED <<history, proc>>
    \/ Add /\ UNCHANGED <<history, proc>>
    \/ Diff /\ UNCHANGED <<history, proc>>
    \/ Commit /\ UNCHANGED <<history, proc>>
    \/ Push /\ UNCHANGED <<history, proc>>
    \/ Sleep /\ UNCHANGED <<history, proc>>
    \/ Interrupt /\ UNCHANGED <<history, proc>>
    \/ StartupInterrupt /\ UNCHANGED <<history, proc>>

Spec == Init /\ [][Next]_vars

\* The loader alone, over every config file of the model
InitLoad == InitWith(AllFiles)
NextLoad == LoadConfig /\ UNCHANGED <<history, proc>>
SpecLoad == InitLoad /\ [][NextLoad]_vars

\* ------------------------------------------------------------ whole iterations

\* How the iteration whose sleep is at `site` ended, from the run() calls h it made
IterationOutcome(site, h) ==
    CASE site = "sleep87" -> "debounced"
      [] site = "sleep95" -> "add_failed"
      [] site = "sleep102" -> "diff_failed"
      [] site = "sleep106" -> "nothing_staged"
      [] site = "sleep128" /\ Len(h) = 1 ->
            IF h[1].code # 0 THEN "status_failed" ELSE "no_changes"
      [] site = "sleep128" /\ Len(h) = 4 ->
            IF h[4].code # 0 THEN "commit_failed" ELSE "committed"
      [] site = "sleep128" /\ Len(h) = 5 ->
            IF h[5].code # 0 THEN "push_failed" ELSE "pushed"
      [] OTHER -> "other"

\* The history of a status query: no sleep since
ObservePoll ==
    /\ sleeps' = 0
    /\ UNCHANGED <<prev_iter, detected_before>>

\* The history of a time.sleep() call: it is counted when it returns, and the
\* iteration it ends is recorded
ObserveSleep ==
    IF pc' = "crashed"
    THEN UNCHANGED history
    ELSE /\ sleeps' = sleeps + 1
         /\ prev_iter' = IterationOutcome(pc, cmds)
         /\ detected_before' =
               (detected_before
                  \/ IterationOutcome(pc, cmds) \notin {"status_failed", "no_changes"})

\* The config files of the specifications that observe whole iterations: the
\* keys the loop's control flow reads
IterationKeys == {"delay_seconds", "debounce_seconds", "push"}
IterationFiles ==
    {f \in ObjectFiles(MaxFileKeys) : DOMAIN f.obj \subseteq IterationKeys}
        \cup {File("absent", EmptyDict, <<>>, Null)}

InitHist == InitWith(IterationFiles)

NextHist ==
    \/ LoadConfig /\ UNCHANGED <<history, proc>>
    \/ CheckEnabled /\ UNCHANGED <<history, proc>>
    \/ ParseConfig /\ UNCHANGED <<history, proc>>
    \/ Poll /\ ObservePoll /\ UNCHANGED proc
    \/ Debounce /\ UNCHANGED <<history, proc>>
    \/ Add /\ UNCHANGED <<history, proc>>
    \/ Diff /\ UNCHANGED <<history, proc>>
    \/ Commit /\ UNCHANGED <<history, proc>>
    \/ Push /\ UNCHANGED <<history, proc>>
    \/ Sleep /\ ObserveSleep /\ UNCHANGED proc
    \/ Interrupt /\ UNCHANGED <<history, proc>>
    \/ StartupInterrupt /\ UNCHANGED <<history, proc>>

\* main() with the iterations observed
SpecHist == InitHist /\ [][NextHist]_vars

\* ------------------------------------------------------------ run() taken alone

\* What subprocess.run can meet: the process is launched and exits with a
\* status and its captured text, or the launch raises and str(e) is the text
RunCodes == {0, 1, 2, 128}
RunChars == OutChars \cup {"\n"}
RunTexts == UNION {[1..n -> RunChars] : n \in 0..(MaxOut + 1)}
RunOutcomes ==
    {[launched |-> TRUE, returncode |-> c, stdout |-> t, text |-> <<>>] :
        c \in RunCodes, t \in RunTexts}
    \cup {[launched |-> FALSE, returncode |-> 0, stdout |-> <<>>, text |-> t] :
            t \in {<<>>, <<"E">>, <<" ", "E">>}}

InitRun ==
    /\ proc \in RunOutcomes
    /\ pc = "run"
    /\ file = File("absent", EmptyDict, <<>>, Null)
    /\ DEFAULT_CONFIG = DefaultRecord
    /\ cfg = EmptyDict
    /\ exit_status = Running
    /\ delay = 0
    /\ debounce = 0
    /\ branch = Null
    /\ push = FALSE
    /\ include_untracked = FALSE
    /\ last_commit_time = 0
    /\ now = 0
    /\ code = 0
    /\ out = <<>>
    /\ clock = 0
    /\ cmds = <<>>
    /\ lct_at_poll = 0
    /\ sleeps = 0
    /\ prev_iter = "none"
    /\ detected_before = FALSE
    /\ log = ""

\* Lines 47-54: one call of run(), from the print to the return
RunCall ==
    /\ pc = "run"
    /\ log' = "> cmd"
    /\ code' = run(proc).code
    /\ out' = run(proc).out
    /\ pc' = "returned"
    /\ UNCHANGED <<file, DEFAULT_CONFIG, cfg, exit_status, delay, debounce, branch,
                   push, include_untracked, last_commit_time, now, clock, cmds,
                   lct_at_poll, history, proc>>

NextRun == RunCall
SpecRun == InitRun /\ [][NextRun]_vars

\* ------------------------------------------------------------ the loop left to run

\* main() when nothing interrupts it, the working tree keeps reporting changes
\* and every git command returns status 0, the staged diff being non-empty.
\* The loop is one thread that executes its next statement whenever it can:
\* weak fairness of its step.
NextLive ==
    \/ LoadConfig /\ UNCHANGED <<history, proc>>
    \/ CheckEnabled /\ UNCHANGED <<history, proc>>
    \/ ParseConfig /\ UNCHANGED <<history, proc>>
    \/ Poll /\ code' = 0 /\ Strip(out') # <<>> /\ UNCHANGED <<history, proc>>
    \/ Debounce /\ UNCHANGED <<history, proc>>
    \/ Add /\ code' = 0 /\ UNCHANGED <<history, proc>>
    \/ Diff /\ code' = 0 /\ Strip(out') # <<>> /\ UNCHANGED <<history, proc>>
    \/ Commit /\ code' = 0 /\ UNCHANGED <<history, proc>>
    \/ Push /\ code' = 0 /\ UNCHANGED <<history, proc>>
    \/ Sleep /\ UNCHANGED <<history, proc>>

SpecLive == InitHist /\ [][NextLive]_vars /\ WF_vars(NextLive)

\* ------------------------------------------------------------ the claims

Cmds(i) == cmds[i].cmd
LastEntry == cmds[Len(cmds)]
HasCommit == \E i \in 1..Len(cmds) : IsCommit(cmds[i])
HasPush == \E i \in 1..Len(cmds) : IsPush(cmds[i])
CfgBranch == Get(cfg, "branch", DefaultRecord["branch"])
CfgPush == PyBool(Get(cfg, "push", DefaultRecord["push"]))

\* C1: the debounce gate.  An iteration that detects changes at time now with
\* now - last_commit_time < debounce (control at the sleep of line 87) has
\* issued only the status command: no add, no diff --cached, no commit.  An
\* iteration that detects changes with now - last_commit_time >= debounce is
\* never sent to that sleep: control goes to the add, and the command that
\* follows the status is 'git add -A', issued only when the gate was passed.
C1_DebounceGate ==
    /\ pc = "sleep87" =>
          /\ now - last_commit_time < debounce
          /\ Len(cmds) = 1 /\ Cmds(1) = StatusCmd
    /\ pc = "add" => now - last_commit_time >= debounce /\ Len(cmds) = 1
    /\ pc \in {"diff", "commit", "push", "sleep95", "sleep102", "sleep106"} =>
          Len(cmds) >= 2
    /\ Len(cmds) >= 2 => Cmds(2) = AddCmd /\ now - lct_at_poll >= debounce

\* C1's case: changes are detected a second time, at least debounce > 0 after a
\* commit was recorded, and control goes to the add.
C1_Witness ==
    pc = "add" /\ last_commit_time > 0 /\ debounce > 0

\* C1's other case: changes are detected too soon after a recorded commit.
C1_WitnessTooSoon ==
    pc = "sleep87" /\ last_commit_time > 0

\* The last run() of the iteration was the diff --cached after an add that
\* exited 0, and its output is empty.
EmptyDiff ==
    /\ Len(cmds) = 3
    /\ Cmds(2) = AddCmd /\ cmds[2].code = 0
    /\ Cmds(3) = DiffCmd
    /\ Strip(out) = <<>>

\* C2: when 'git add -A' exited 0 and 'git diff --cached --name-only' came
\* back empty, control is never at the commit or the push: it is at a sleep,
\* at the next poll, or the watcher has ended; the iteration has run no commit
\* and no push, and last_commit_time is what it was when the iteration began.
C2_EmptyDiffNoCommit ==
    EmptyDiff =>
        /\ pc \in {"sleep102", "sleep106", "poll", "stopped", "crashed"}
        /\ ~HasCommit /\ ~HasPush
        /\ last_commit_time = lct_at_poll

\* C2's case: the add exited 0, the diff exited 0 with empty output.
C2_Witness ==
    EmptyDiff /\ code = 0 /\ pc = "sleep106"

\* C3: last_commit_time is changed only by the step that runs 'git commit'
\* and gets status 0 back; every other step leaves it as it was.
C3_OnlyCommitSuccess ==
    [][last_commit_time' # last_commit_time =>
          /\ pc = "commit"
          /\ cmds' = Append(cmds, LastEntry')
          /\ IsCommit(LastEntry')
          /\ LastEntry'.code = 0 /\ code' = 0]_vars

\* C3's case: a commit failed and, in an earlier iteration, a commit succeeded.
C3_Witness ==
    /\ pc = "sleep128"
    /\ Len(cmds) = 4 /\ IsCommit(LastEntry) /\ LastEntry.code # 0
    /\ last_commit_time > 0
    /\ last_commit_time = lct_at_poll

\* C4, the state part: a push was run only with the push flag set, right
\* after this iteration's commit exited 0, and as 'git push origin <branch>'
\* for the configured branch; control is at the push exactly when the push
\* flag is set and this iteration's commit has just exited 0; nothing is run
\* after the push.
C4_PushState ==
    /\ push = CfgPush \/ pc \in StartupPCs \cup {"exited", "aborted", "crashed"}
    /\ \A i \in 1..Len(cmds) :
          IsPush(cmds[i]) =>
              /\ CfgPush
              /\ i > 1 /\ IsCommit(cmds[i - 1]) /\ cmds[i - 1].code = 0
              /\ Cmds(i) = <<"git push origin ">> \o PyStr(CfgBranch)
              /\ i = Len(cmds)
    /\ pc \in LoopPCs /\ cmds # <<>> =>
          (pc = "push" <=> CfgPush /\ IsCommit(LastEntry) /\ LastEntry.code = 0)

\* C4, the step part: the push, whatever its status, leaves last_commit_time
\* alone and sends control to the sleep of line 128.
C4_PushStep ==
    pc = "push" =>
        /\ last_commit_time' = last_commit_time
        /\ pc' \in {"sleep128", "stopped"}
        /\ pc' = "sleep128" => IsPush(LastEntry')

\* C4: the push is run if and only if the push flag is set and the commit of
\* the same iteration exited 0; it targets 'origin <configured branch>'; a
\* failed push does not change last_commit_time, is followed by no further
\* command, and the loop goes on to the sleep.
C4_Push == []C4_PushState /\ [][C4_PushStep]_vars

\* C4's case: the push ran after a successful commit and failed.
C4_Witness ==
    /\ pc = "sleep128"
    /\ Len(cmds) = 5 /\ IsPush(LastEntry) /\ LastEntry.code # 0
    /\ last_commit_time > lct_at_poll

\* C5: with enabled = false in the loaded configuration, control never enters
\* the loop and no command is run; the enabled check ends the process with
\* status 0.
C5_DisabledExits ==
    (pc # "start" /\ Get(cfg, "enabled", Bool(TRUE)) = Bool(FALSE)) =>
        /\ pc \in {"check_enabled", "exited", "aborted"}
        /\ cmds = <<>>
        /\ pc = "exited" => exit_status = Exited(0)
        /\ pc = "aborted" => log = "KeyboardInterrupt"

\* C5's case: the process has exited on enabled = false.
C5_Witness ==
    pc = "exited" /\ Get(cfg, "enabled", Bool(TRUE)) = Bool(FALSE) /\ exit_status = Exited(0)

\* C6, as claimed: whatever load_config returned and whatever the commands
\* returned, no error escapes main().
C6_NoErrorEscapes ==
    pc # "crashed"

\* C7: has_worktree_changes() is False whenever the status command's status
\* is not 0, whatever the output; with status 0 it is True exactly when the
\* stripped output is not empty.  (The detector's answer is where control is
\* right after the status command.)
C7_HasWorktreeChanges ==
    (Len(cmds) = 1 /\ pc \in {"debounce", "sleep128"}) =>
        /\ Cmds(1) = StatusCmd /\ cmds[1].code = code
        /\ code # 0 => pc = "sleep128"
        /\ code = 0 => (pc = "debounce" <=> Strip(out) # <<>>)

\* C7's case: the status command failed with output text and no change is reported.
C7_Witness ==
    Len(cmds) = 1 /\ pc = "sleep128" /\ code # 0 /\ out # <<>>

\* C8: for a config file holding a JSON object, the record load_config
\* returns has the file's value for every key of the file and the default for
\* every default key the file lacks, and no other key; DEFAULT_CONFIG is as
\* it was.
C8_KeywiseOverride ==
    (pc = "check_enabled" /\ file.kind = "object") =>
        /\ DOMAIN cfg = DOMAIN DefaultRecord \cup DOMAIN file.obj
        /\ \A k \in DOMAIN file.obj : cfg[k] = file.obj[k]
        /\ \A k \in DOMAIN DefaultRecord \ DOMAIN file.obj : cfg[k] = DefaultRecord[k]
        /\ DEFAULT_CONFIG = DefaultRecord

\* C8's case: a file with some keys, one of them overriding a default with
\* another value, one default key absent and one unknown key.
C8_Witness ==
    /\ pc = "check_enabled" /\ file.kind = "object"
    /\ "push" \in DOMAIN file.obj /\ file.obj["push"] # DefaultRecord["push"]
    /\ "extra" \in DOMAIN file.obj
    /\ "branch" \notin DOMAIN file.obj
    /\ cfg["push"] = file.obj["push"]

\* C9, as claimed: load_config returns a record with every default key, and
\* exactly the default record when the file is absent, unreadable, not JSON,
\* or JSON that is not an object.
C9_DefaultsOnFailure ==
    pc = "check_enabled" =>
        /\ DOMAIN DefaultRecord \subseteq DOMAIN cfg
        /\ file.kind # "object" => cfg = DefaultRecord

\* C10, as claimed: once the loop has been entered, the watcher is in the
\* loop or has been stopped by the interrupt, with the stop message logged
\* and status 0; nothing else makes it leave the loop.
C10_OnlyInterruptEnds ==
    cmds # <<>> =>
        \/ pc \in LoopPCs /\ exit_status = Running
        \/ /\ pc = "stopped"
           /\ exit_status = Exited(0)
           /\ log = "Autocommit watcher stopped by user."

\* The commit of the current iteration was run and returned status 0.
CommitDone == Len(cmds) >= 4 /\ cmds[4].code = 0
AllZero == \A i \in 1..Len(cmds) : cmds[i].code = 0
FailedIterations == {"add_failed", "diff_failed", "commit_failed"}

\* C11: with enabled true, debounce_seconds = 0 and push false, an iteration is
\* never debounced and never pushes, and when all its commands returned 0 it
\* can end in three ways only: after the status alone, whose output was empty
\* (no modified tree); after status, add, diff --cached, the diff's output
\* being empty; or after exactly status, add, diff --cached, commit in that
\* order, with last_commit_time at least the time the commit call returned.
\* So a modified tree with a non-empty staged diff gives the third.
C11_EndToEnd ==
    (pc \in LoopPCs /\ debounce = 0 /\ ~push) =>
        /\ pc \notin {"sleep87", "push"}
        /\ ~HasPush
        /\ (pc \in SleepPCs /\ AllZero) =>
              \/ pc = "sleep128" /\ Len(cmds) = 1 /\ Strip(out) = <<>>
              \/ pc = "sleep106" /\ Len(cmds) = 3 /\ Strip(out) = <<>>
              \/ /\ pc = "sleep128"
                 /\ Len(cmds) = 4
                 /\ Cmds(1) = StatusCmd /\ Cmds(2) = AddCmd /\ Cmds(3) = DiffCmd
                 /\ IsCommit(cmds[4])
                 /\ last_commit_time >= clock

\* C11's case: the iteration has run its four commands, all returning 0, the
\* commit call took time, and control is at the final sleep.
C11_Witness ==
    /\ pc = "sleep128" /\ debounce = 0 /\ ~push
    /\ Len(cmds) = 4 /\ AllZero
    /\ last_commit_time = clock /\ clock > now

\* C12 as stated: a command that failed in one iteration is invoked in the
\* next one, so at the end of the iteration that follows a failed add (diff,
\* commit, push) an add (diff, commit, push) has been issued again.
C12_RetriedNextIteration ==
    pc \in SleepPCs =>
        /\ prev_iter = "add_failed" => Len(cmds) >= 2
        /\ prev_iter = "diff_failed" => Len(cmds) >= 3
        /\ prev_iter = "commit_failed" => Len(cmds) >= 4
        /\ prev_iter = "push_failed" => HasPush

\* C12, amended: after an iteration in which a command failed, the next
\* iteration starts with the status command, one sleep later.  After a failed
\* add, diff --cached or commit it is not debounced, and it ends after the
\* status alone only if the status failed or reported no changes.  After a
\* failed push, a push is issued only behind a commit of the same iteration
\* that returned 0.
C12_RetriedWhenReached ==
    pc \in LoopPCs =>
        /\ prev_iter # "none" =>
              IF pc = "poll" THEN sleeps = 1
              ELSE sleeps = 0 /\ Len(cmds) >= 1 /\ Cmds(1) = StatusCmd
        /\ prev_iter \in FailedIterations =>
              /\ pc # "sleep87"
              /\ (pc \in SleepPCs /\ Len(cmds) = 1) =>
                    cmds[1].code # 0 \/ Strip(out) = <<>>
        /\ (prev_iter = "push_failed" /\ HasPush) =>
              Len(cmds) = 5 /\ cmds[4].code = 0

\* C12's case: the iteration after a failed push has ended, its status
\* returning 0, and no push was issued in it.
C12_Witness ==
    /\ prev_iter = "push_failed" /\ pc = "sleep128"
    /\ Len(cmds) = 1 /\ cmds[1].code = 0

\* C13: the commands of an iteration are a prefix of status, add,
\* diff --cached, commit, push, each issued once; every command but the last
\* one issued returned 0; and after a non-zero status from add, diff --cached
\* or commit no further command of the iteration is issued: control is at the
\* sleep of that branch or, the sleep over, at the next poll.
C13_ShortCircuit ==
    /\ Len(cmds) <= 5
    /\ Len(cmds) >= 1 => Cmds(1) = StatusCmd
    /\ Len(cmds) >= 2 => Cmds(2) = AddCmd
    /\ Len(cmds) >= 3 => Cmds(3) = DiffCmd
    /\ Len(cmds) >= 4 => IsCommit(cmds[4])
    /\ Len(cmds) >= 5 => IsPush(cmds[5])
    /\ \A i \in 1..(Len(cmds) - 1) : cmds[i].code = 0
    /\ (Len(cmds) \in 2..4 /\ LastEntry.code # 0) =>
          /\ pc \notin {"debounce", "add", "diff", "commit", "push"}
          /\ pc \in SleepPCs =>
                pc = CASE Len(cmds) = 2 -> "sleep95"
                       [] Len(cmds) = 3 -> "sleep102"
                       [] OTHER -> "sleep128"

\* C13's case: the commit returned a non-zero status with push configured, and
\* control is at the final sleep without a push.
C13_Witness ==
    /\ pc = "sleep128" /\ push
    /\ Len(cmds) = 4 /\ LastEntry.code # 0

\* C14 as stated: run() returns (status, captured output) for a launched
\* command and (1, exception text) when the launch fails.
C14_ReturnsCaptured ==
    pc = "returned" =>
        IF proc.launched
        THEN code = proc.returncode /\ out = proc.stdout
        ELSE code = 1 /\ out = proc.text

\* C14, amended: run() always returns: for a launched command, whatever its
\* status, the pair (that status, the captured output with leading and
\* trailing whitespace removed); when the launch fails, (1, exception text),
\* the text as it is.
C14_ReturnsStripped ==
    /\ pc \in {"run", "returned"}
    /\ pc = "returned" =>
          IF proc.launched
          THEN code = proc.returncode /\ out = Strip(proc.stdout)
          ELSE code = 1 /\ out = proc.text

\* C14's case: a command that exits non-zero and whose captured output has
\* whitespace at an end has returned.
C14_Witness ==
    /\ pc = "returned" /\ proc.launched /\ proc.returncode # 0
    /\ out # proc.stdout /\ out # <<>>

\* C15: no sleep has returned since the status query of the iteration in
\* progress, and when control is back at the status query exactly one has;
\* every sleep ends one of the listed paths.
C15_OneSleep ==
    /\ pc \in (LoopPCs \ {"poll"}) => sleeps = 0
    /\ pc = "poll" => sleeps = (IF prev_iter = "none" THEN 0 ELSE 1)
    /\ prev_iter \in {"none", "no_changes", "status_failed", "debounced",
                      "add_failed", "diff_failed", "nothing_staged",
                      "commit_failed", "committed", "push_failed", "pushed"}

\* C15's case: an iteration that found nothing staged is over and control is
\* at the next status query.
C15_Witness == pc = "poll" /\ prev_iter = "nothing_staged" /\ sleeps = 1

\* C17: last_commit_time never decreases; it changes within an iteration only
\* by a commit that returned 0, and then the debounce check of that iteration
\* was evaluated at least debounce_seconds after the last_commit_time the
\* iteration began with, and the new value is not before that check.
C17_State ==
    /\ last_commit_time >= lct_at_poll
    /\ ~CommitDone => last_commit_time = lct_at_poll
    /\ CommitDone =>
          /\ now - lct_at_poll >= debounce
          /\ last_commit_time >= now
          /\ last_commit_time - lct_at_poll >= debounce

C17_Step == last_commit_time' >= last_commit_time

C17_MinSpacing == []C17_State /\ [][C17_Step]_vars

\* C17's case: a second commit has been recorded, debounce_seconds > 0 after
\* the first.
C17_Witness ==
    /\ CommitDone /\ pc \in {"push", "sleep128"}
    /\ lct_at_poll > 0 /\ debounce > 0

\* C18: the iteration after one in which add, diff --cached or commit failed,
\* or nothing was staged, is never sent to the debounce sleep, and the failed
\* iteration left last_commit_time as it found it.
C18_NoWindowFromFailure ==
    (pc \in LoopPCs
       /\ prev_iter \in FailedIterations \cup {"nothing_staged"}) =>
        /\ pc # "sleep87"
        /\ pc = "poll" => last_commit_time = lct_at_poll

\* C18's case: the commit has failed in two iterations in a row, one sleep of
\* delay_seconds apart, with a longer debounce_seconds.
C18_Witness ==
    /\ prev_iter = "commit_failed" /\ pc = "sleep128"
    /\ Len(cmds) = 4 /\ LastEntry.code # 0
    /\ delay > 0 /\ debounce > delay

\* The clock readings left are enough for the sleeps on the way from a commit
\* recorded at t to the next one.
ClockRoom(t) ==
    t + delay + (IF debounce - 1 > MaxStep THEN debounce - 1 ELSE MaxStep) <= MaxClock

\* C19: with delay_seconds > 0, left to run with changes always reported and
\* every command succeeding, the loop issues a commit; after a commit
\* recorded at t a later one is recorded; and from the debounce sleep control
\* reaches the add.
C19_Liveness ==
    /\ (pc = "poll" /\ delay > 0 /\ last_commit_time = 0 /\ ClockRoom(0))
          ~> HasCommit
    /\ \A t \in 0..MaxClock :
          (pc \in LoopPCs /\ delay > 0 /\ CommitDone
             /\ last_commit_time = t /\ ClockRoom(t))
             ~> (CommitDone /\ last_commit_time > t)
    /\ (pc = "sleep87" /\ delay > 0 /\ ClockRoom(last_commit_time))
          ~> (pc = "add")

\* C19's case: after a debounce sleep a second commit has been recorded.
C19_Witness ==
    /\ CommitDone /\ pc \in {"push", "sleep128"}
    /\ lct_at_poll > 0 /\ debounce > 0 /\ delay > 0
    /\ last_commit_time >= lct_at_poll + debounce

\* C20: until an iteration that detected changes is over, the iteration in
\* progress began with last_commit_time = 0: if it detects changes it is sent
\* to the debounce sleep only with a clock reading below debounce_seconds, and
\* goes to the add with any reading of at least debounce_seconds.
C20_FirstDetection ==
    (pc \in LoopPCs /\ ~detected_before) =>
        /\ lct_at_poll = 0
        /\ pc \in {"poll", "debounce", "sleep87", "add"} => last_commit_time = 0
        /\ pc = "sleep87" => now < debounce
        /\ pc = "add" => now >= debounce

\* C20's case: the first iteration of the process detects changes and goes
\* straight to the add, debounce_seconds being positive.
C20_Witness ==
    /\ prev_iter = "none" /\ pc = "add"
    /\ debounce > 0 /\ now >= debounce

====
